---- MODULE Spec2Model ----
(***************************************************************************)
(* Model of src/app.py: the LS300 tracker dashboard.                       *)
(*                                                                         *)
(* The module-level code loads the full history once (load_all_data),      *)
(* then the Dash callback update_map is run by the web server for every    *)
(* tick of a browser's dcc.Interval.  update_map fetches the readings at   *)
(* or after the newest time it holds, appends them to the global data_df,  *)
(* assigns colors to devices in the global device_colors and returns the   *)
(* markers and polylines of the whole data_df.                             *)
(*                                                                         *)
(* A missing value (pandas NaN/None) is the empty tuple, a present value v *)
(* is <<v>>; timestamps are integers and are never missing.                *)
(***************************************************************************)
EXTENDS Integers, Sequences, FiniteSets, TLC

\* ---------------------------------------------------------------- bounds
MaxTime == 2        \* timestamps of readings are START_TIME..MaxTime
MaxSource == 2      \* readings the telemetry store may come to hold
MaxTicks == 2       \* ticks of the interval that are served

\* ------------------------------------------------------- configuration
START_TIME == 1

color_palette ==
    <<"red", "blue", "green", "purple", "orange",
      "pink", "magenta", "cyan", "lime", "yellow">>

\* The server threads (or browser sessions) that may each be inside
\* update_map: the callback is registered without any lock and
\* app.run() serves requests on separate threads.
Workers == {"w1", "w2"}

\* Device tags a reading may carry, in the order groupby("device") sorts
\* its keys.
DeviceOrder == <<"A", "B">>

\* ------------------------------------------------------ values and frames
NaN == <<>>
notna(x) == x # NaN

DeviceValues == {<<DeviceOrder[i]>> : i \in 1..Len(DeviceOrder)} \cup {NaN}

\* Columns of the adapter's frame after the query's keep(columns: ...);
\* only the ones the callback reads are modelled.
RawColumns == {"_time", "device", "latitude", "longitude"}

\* pd.DataFrame(): no columns, no rows
EmptyFrame == [columns |-> {}, rows |-> <<>>]

\* df.empty
empty(df) == df.rows = <<>> \/ df.columns = {}

\* the readings the telemetry store can hold: one per (device, _time);
\* a valid coordinate carries the reading's time so that points can be
\* told apart
Readings ==
    UNION {{[_time |-> t, device |-> d, latitude |-> la, longitude |-> lo] :
               d \in DeviceValues, la \in {NaN, <<t>>}, lo \in {NaN, <<t>>}} :
           t \in START_TIME..MaxTime}

SeqMax(s) ==
    LET RECURSIVE mx(_, _)
        mx(i, m) == IF i > Len(s) THEN m
                    ELSE mx(i + 1, IF s[i] > m THEN s[i] ELSE m)
    IN mx(2, s[1])

\* every arrival order of a set of rows
Perms(S) ==
    {f \in [1..Cardinality(S) -> S] :
        \A i, j \in 1..Cardinality(S) : i # j => f[i] # f[j]}

\* df.rename(columns={old: new})
rename(df, old, new) ==
    IF old \notin df.columns THEN df
    ELSE LET cols == (df.columns \ {old}) \cup {new}
         IN [columns |-> cols,
             rows |-> [i \in 1..Len(df.rows) |->
                         [c \in cols |-> IF c = new THEN df.rows[i][old]
                                         ELSE df.rows[i][c]]]]

\* pd.concat([a, b], ignore_index=True)
concat(a, b) ==
    [columns |-> a.columns \cup b.columns, rows |-> a.rows \o b.rows]

\* ------------------------------------------------ Telemetry Source Adapter
\* query_api.query_data_frame(query) for |> range(start: start): what the
\* call can produce given the readings in the store.  range() includes
\* its start.
Matching(src, start) == {r \in src : r._time >= start}

StripTime(rows) ==
    [i \in 1..Len(rows) |->
        [c \in RawColumns \ {"_time"} |-> rows[i][c]]]

AdapterResponses(src, start) ==
    \* connectivity or query error: the call raises
    {[kind |-> "error", df |-> EmptyFrame]}
    \* no rows
    \cup {[kind |-> "empty", df |-> EmptyFrame]}
    \* one frame holding the matching readings, in some arrival order
    \cup {[kind |-> "frame", df |-> [columns |-> RawColumns, rows |-> p]] :
            p \in Perms(Matching(src, start)) \ {<<>>}}
    \* several tables: a Python list of frames, rows given here in the
    \* order the frames hold them
    \cup {[kind |-> "list", df |-> [columns |-> RawColumns, rows |-> p]] :
            p \in Perms(Matching(src, start)) \ {<<>>}}
    \* rows without the _time column (their order plays no part)
    \cup {[kind |-> "malformed",
           df |-> [columns |-> RawColumns \ {"_time"},
                   rows |-> StripTime(p)]] :
            p \in {CHOOSE q \in Perms(Matching(src, start)) : TRUE} \ {<<>>}}

\* ----------------------------------------------------------- load_all_data
\* The result of a call: either it raised `error`, or it returned `df`.
Raised(e) == [raised |-> TRUE, error |-> e, df |-> EmptyFrame]
Returned(df) == [raised |-> FALSE, error |-> "", df |-> df]

\* load_all_data without the test for the '_time' column (line 50): the
\* frame goes on to df["time"], which is not there.
load_all_data_NoColumnTest(resp) ==
    IF resp.kind = "error" THEN Raised("QueryError")
    ELSE
      LET df == resp.df IN
      IF empty(df) THEN Returned(EmptyFrame)
      ELSE LET renamed == rename(df, "_time", "time")
           IN IF "time" \notin renamed.columns THEN Raised("KeyError")
              ELSE Returned(renamed)

load_all_data(resp) ==
    IF resp.kind = "error" THEN Raised("QueryError")
    ELSE
      \* isinstance(df, list): pd.concat(df, ignore_index=True)
      LET df == resp.df IN
      IF empty(df) \/ "_time" \notin df.columns THEN Returned(EmptyFrame)
      ELSE Returned(rename(df, "_time", "time"))

\* -------------------------------------------------------------- update_map
\* the watermark taken from the last row, as if data_df were sorted
max_time_LastRow(df) == df.rows[Len(df.rows)].time

\* data_df["time"].max()
max_time(df) == SeqMax([i \in 1..Len(df.rows) |-> df.rows[i].time])

\* lines 180-183: what the callback makes of the adapter's answer.  It
\* returns the frame to append (empty when there is nothing to append) or
\* raises.
fetch_new(resp) ==
    IF resp.kind = "error" THEN Raised("QueryError")
    \* a list has no attribute `empty`
    ELSE IF resp.kind = "list" THEN Raised("AttributeError")
    ELSE IF empty(resp.df) THEN Returned(EmptyFrame)
    ELSE LET new_df == rename(resp.df, "_time", "time")
         IN \* new_df["time"] = pd.to_datetime(new_df["time"])
            IF "time" \notin new_df.columns THEN Raised("KeyError")
            ELSE Returned(new_df)

\* data_df["device"].dropna().unique(): the devices of the frame in order
\* of first appearance
unique_devices(df) ==
    LET RECURSIVE go(_, _)
        go(i, acc) ==
            IF i > Len(df.rows) THEN acc
            ELSE LET d == df.rows[i].device
                 IN go(i + 1,
                       IF notna(d) /\ \A k \in 1..Len(acc) : acc[k] # d
                       THEN Append(acc, d) ELSE acc)
    IN go(1, <<>>)

\* device_colors[device] = color_palette[len(device_colors) % len(color_palette)]
assign_color(colors, device) ==
    LET c == color_palette[(Cardinality(DOMAIN colors) % Len(color_palette)) + 1]
    IN [d \in DOMAIN colors \cup {device} |->
            IF d = device THEN c ELSE colors[d]]

\* lines 194-211: the marker loop.  It looks every row's device up in
\* device_colors, assigning a color to a key it does not find, and emits a
\* marker for every row with both coordinates.
CircleMarker(row, color) ==
    [type |-> "CircleMarker",
     center |-> <<row.latitude, row.longitude>>,
     color |-> color,
     popup |-> [device |-> row.device, time |-> row.time]]

\* the marker loop testing the latitude only at line 201
build_markers_LatitudeOnly(df, colors) ==
    LET RECURSIVE go(_, _, _)
        go(i, cs, ms) ==
            IF i > Len(df.rows) THEN [colors |-> cs, markers |-> ms]
            ELSE LET row == df.rows[i]
                     cs2 == IF row.device \notin DOMAIN cs
                            THEN assign_color(cs, row.device) ELSE cs
                 IN go(i + 1, cs2,
                       IF notna(row.latitude)
                       THEN Append(ms, CircleMarker(row, cs2[row.device]))
                       ELSE ms)
    IN go(1, colors, <<>>)

\* the marker loop taking a fallback color for a device it has not seen,
\* as line 218 does, before it registers the device
build_markers_FallbackColor(df, colors) ==
    LET RECURSIVE go(_, _, _)
        go(i, cs, ms) ==
            IF i > Len(df.rows) THEN [colors |-> cs, markers |-> ms]
            ELSE LET row == df.rows[i]
                     color == IF row.device \in DOMAIN cs
                              THEN cs[row.device] ELSE "black"
                     cs2 == IF row.device \notin DOMAIN cs
                            THEN assign_color(cs, row.device) ELSE cs
                 IN go(i + 1, cs2,
                       IF notna(row.latitude) /\ notna(row.longitude)
                       THEN Append(ms, CircleMarker(row, color))
                       ELSE ms)
    IN go(1, colors, <<>>)

build_markers(df, colors) ==
    LET RECURSIVE go(_, _, _)
        go(i, cs, ms) ==
            IF i > Len(df.rows) THEN [colors |-> cs, markers |-> ms]
            ELSE LET row == df.rows[i]
                     cs2 == IF row.device \notin DOMAIN cs
                            THEN assign_color(cs, row.device) ELSE cs
                 IN go(i + 1, cs2,
                       IF notna(row.latitude) /\ notna(row.longitude)
                       THEN Append(ms, CircleMarker(row, cs2[row.device]))
                       ELSE ms)
    IN go(1, colors, <<>>)

\* the group left in arrival order (line 216 missing)
sort_values_time_Unsorted(rows) == rows

\* group.sort_values("time")
sort_values_time(rows) ==
    LET RECURSIVE ins(_, _)
        ins(sorted, r) ==
            IF sorted = <<>> THEN <<r>>
            ELSE IF sorted[Len(sorted)].time <= r.time THEN Append(sorted, r)
            ELSE Append(ins(SubSeq(sorted, 1, Len(sorted) - 1), r),
                        sorted[Len(sorted)])
        RECURSIVE go(_, _)
        go(i, acc) == IF i > Len(rows) THEN acc
                      ELSE go(i + 1, ins(acc, rows[i]))
    IN go(1, <<>>)

\* the rows of one group of data_df.groupby("device")
group_rows(df, device) ==
    LET RECURSIVE go(_, _)
        go(i, acc) ==
            IF i > Len(df.rows) THEN acc
            ELSE go(i + 1, IF df.rows[i].device = device
                           THEN Append(acc, df.rows[i]) ELSE acc)
    IN go(1, <<>>)

\* list(zip(group["latitude"], group["longitude"]))
coords_of(group) ==
    [i \in 1..Len(group) |-> <<group[i].latitude, group[i].longitude>>]

\* the polylines with a lookup that never finds the device: every trail
\* gets the fallback of line 218
build_lines_Fallback(df, colors) ==
    LET RECURSIVE go(_, _)
        go(k, ls) ==
            IF k > Len(DeviceOrder) THEN ls
            ELSE LET device == <<DeviceOrder[k]>>
                     group == sort_values_time(group_rows(df, device))
                     coords == coords_of(group)
                 IN go(k + 1,
                       IF Len(coords) >= 2
                       THEN Append(ls, [type |-> "Polyline",
                                        device |-> device,
                                        positions |-> coords,
                                        color |-> "black"])
                       ELSE ls)
    IN go(1, <<>>)

\* lines 214-229: one polyline per group of at least two rows; groupby
\* visits the non-null keys in sorted order.  `device` is the loop's key.
build_lines(df, colors) ==
    LET RECURSIVE go(_, _)
        go(k, ls) ==
            IF k > Len(DeviceOrder) THEN ls
            ELSE LET device == <<DeviceOrder[k]>>
                     group == sort_values_time(group_rows(df, device))
                     coords == coords_of(group)
                     color == IF device \in DOMAIN colors
                              THEN colors[device] ELSE "black"
                 IN go(k + 1,
                       IF Len(coords) >= 2
                       THEN Append(ls, [type |-> "Polyline",
                                        device |-> device,
                                        positions |-> coords,
                                        color |-> color])
                       ELSE ls)
    IN go(1, <<>>)

\* ------------------------------------------------------------------ state
VARIABLES
    source,         \* the readings the telemetry store holds
    main,           \* the module-level code: "load", "serving" or "crashed"
    load_resp,      \* the adapter's answer to the full-history query
    data_df,        \* global data_df
    device_colors,  \* global device_colors
    pc,             \* where each worker is inside update_map
    last_time,      \* update_map's local last_time
    new_df,         \* update_map's local new_df
    concat_df,      \* the value of pd.concat([data_df, new_df]) not yet stored
    devices,        \* the devices the color loop has still to visit
    adapter,        \* the kind of answer the adapter gave in this cycle
    n_intervals,    \* ticks of the dcc.Interval served so far
    out             \* how the last call of update_map ended, until the next
                    \* request comes in

vars == <<source, main, load_resp, data_df, device_colors, pc, last_time,
          new_df, concat_df, devices, adapter, n_intervals, out>>

locals == <<last_time, new_df, concat_df, devices>>

NoResponse == [kind |-> "none", df |-> EmptyFrame]
NoDict == [d \in {} |-> ""]
NoOut ==
    [kind |-> "none", worker |-> "", error |-> "", adapter |-> "none",
     children |-> <<>>]

\* update_map returns `children` / raises `error` in worker w
Return(w, a, children) ==
    [kind |-> "returned", worker |-> w, error |-> "", adapter |-> a,
     children |-> children]
Raise(w, a, error) ==
    [kind |-> "raised", worker |-> w, error |-> error, adapter |-> a,
     children |-> <<>>]

Init ==
    /\ source = {}
    /\ main = "load"
    /\ load_resp = NoResponse
    /\ data_df = EmptyFrame
    /\ device_colors = NoDict
    /\ pc = [w \in Workers |-> "idle"]
    /\ last_time = [w \in Workers |-> START_TIME]
    /\ new_df = [w \in Workers |-> EmptyFrame]
    /\ concat_df = [w \in Workers |-> EmptyFrame]
    /\ devices = [w \in Workers |-> <<>>]
    /\ adapter = [w \in Workers |-> "none"]
    /\ n_intervals = 0
    /\ out = NoOut

\* A device reports a reading and the telemetry store records it.
SourceWrite ==
    /\ main \in {"load", "serving"}
    /\ Cardinality(source) < MaxSource
    /\ \E r \in Readings :
          /\ \A q \in source : q.device # r.device \/ q._time # r._time
          /\ source' = source \cup {r}
    /\ UNCHANGED <<main, load_resp, data_df, device_colors, pc, locals,
                   adapter, n_intervals, out>>

\* line 59: data_df = load_all_data().  An exception here ends the import
\* of the module: the server never starts.
Load ==
    /\ main = "load"
    /\ \E resp \in AdapterResponses(source, START_TIME) :
          LET res == load_all_data(resp)
          IN /\ load_resp' = resp
             /\ IF res.raised
                THEN main' = "crashed" /\ UNCHANGED data_df
                ELSE main' = "serving" /\ data_df' = res.df
    /\ UNCHANGED <<source, device_colors, pc, locals, adapter, n_intervals,
                   out>>

\* update_map going on to the query from START_TIME when data_df is empty
Enter_FetchWhenEmpty(w) ==
    /\ main = "serving"
    /\ pc[w] = "idle"
    /\ n_intervals < MaxTicks
    /\ n_intervals' = n_intervals + 1
    /\ last_time' = [last_time EXCEPT ![w] =
                        IF empty(data_df) THEN START_TIME
                        ELSE max_time(data_df)]
    /\ pc' = [pc EXCEPT ![w] = "query"]
    /\ out' = NoOut
    /\ UNCHANGED <<source, main, load_resp, data_df, device_colors,
                   new_df, concat_df, devices, adapter>>

\* update_map repeating the full load when data_df is empty
Enter_ReloadWhenEmpty(w) ==
    /\ main = "serving"
    /\ pc[w] = "idle"
    /\ n_intervals < MaxTicks
    /\ n_intervals' = n_intervals + 1
    /\ IF empty(data_df) \/ "time" \notin data_df.columns
       THEN /\ \E resp \in AdapterResponses(source, START_TIME) :
                  data_df' = load_all_data(resp).df
            /\ out' = Return(w, "none", <<>>)
            /\ UNCHANGED <<pc, last_time, adapter>>
       ELSE /\ last_time' = [last_time EXCEPT ![w] = max_time(data_df)]
            /\ pc' = [pc EXCEPT ![w] = "query"]
            /\ out' = NoOut
            /\ UNCHANGED <<adapter, data_df>>
    /\ UNCHANGED <<source, main, load_resp, device_colors,
                   new_df, concat_df, devices>>

\* lines 162-172: a tick of the interval enters update_map.
Enter(w) ==
    /\ main = "serving"
    /\ pc[w] = "idle"
    /\ n_intervals < MaxTicks
    /\ n_intervals' = n_intervals + 1
    /\ IF empty(data_df) \/ "time" \notin data_df.columns
       THEN /\ out' = Return(w, "none", <<>>)
            /\ UNCHANGED <<pc, last_time, adapter>>
       ELSE /\ last_time' = [last_time EXCEPT ![w] = max_time(data_df)]
            /\ pc' = [pc EXCEPT ![w] = "query"]
            /\ out' = NoOut
            /\ UNCHANGED adapter
    /\ UNCHANGED <<source, main, load_resp, data_df, device_colors,
                   new_df, concat_df, devices>>

\* The callback as the server runs it: nothing keeps a second request out
\* while one is inside.
Trigger(w) == Enter(w)

\* The callback under a host that runs one request at a time.
SerialTrigger(w) == (\A v \in Workers : pc[v] = "idle") /\ Enter(w)

\* lines 173-183: the incremental query and the preparation of new_df.
Query(w) ==
    /\ pc[w] = "query"
    /\ \E resp \in AdapterResponses(source, last_time[w]) :
          LET res == fetch_new(resp)
          IN IF res.raised
             THEN /\ out' = Raise(w, resp.kind, res.error)
                  /\ pc' = [pc EXCEPT ![w] = "idle"]
                  /\ last_time' = [last_time EXCEPT ![w] = START_TIME]
                  /\ UNCHANGED <<new_df, adapter>>
             ELSE IF empty(res.df)
             THEN /\ pc' = [pc EXCEPT ![w] = "colors"]
                  /\ adapter' = [adapter EXCEPT ![w] = resp.kind]
                  /\ UNCHANGED <<new_df, out, last_time>>
             ELSE /\ new_df' = [new_df EXCEPT ![w] = res.df]
                  /\ pc' = [pc EXCEPT ![w] = "concat"]
                  /\ adapter' = [adapter EXCEPT ![w] = resp.kind]
                  /\ UNCHANGED <<out, last_time>>
    /\ UNCHANGED <<source, main, load_resp, data_df, device_colors,
                   concat_df, devices, n_intervals>>

\* line 184, right-hand side: the global is read and the new frame built.
Concat(w) ==
    /\ pc[w] = "concat"
    /\ concat_df' = [concat_df EXCEPT ![w] = concat(data_df, new_df[w])]
    /\ pc' = [pc EXCEPT ![w] = "store"]
    /\ UNCHANGED <<source, main, load_resp, data_df, device_colors,
                   last_time, new_df, devices, adapter, n_intervals, out>>

\* line 184, assignment: the new frame is bound to the global name.
Store(w) ==
    /\ pc[w] = "store"
    /\ data_df' = concat_df[w]
    /\ new_df' = [new_df EXCEPT ![w] = EmptyFrame]
    /\ concat_df' = [concat_df EXCEPT ![w] = EmptyFrame]
    /\ pc' = [pc EXCEPT ![w] = "colors"]
    /\ UNCHANGED <<source, main, load_resp, device_colors, last_time,
                   devices, adapter, n_intervals, out>>

\* the devices of a list that device_colors does not hold come first
\* after dropping the ones it holds
skip_known(ds, colors) ==
    LET RECURSIVE go(_)
        go(r) == IF r # <<>> /\ Head(r) \in DOMAIN colors
                 THEN go(Tail(r)) ELSE r
    IN go(ds)

\* line 189: the list of devices the loop runs over, and line 190 for the
\* devices up to the first one that has no color yet.
ColorsBegin(w) ==
    /\ pc[w] = "colors"
    /\ LET rest == skip_known(unique_devices(data_df), device_colors)
       IN /\ devices' = [devices EXCEPT ![w] = rest]
          /\ pc' = [pc EXCEPT ![w] = IF rest = <<>> THEN "build" ELSE "assign"]
    /\ UNCHANGED <<source, main, load_resp, data_df, device_colors,
                   last_time, new_df, concat_df, adapter, n_intervals, out>>

\* line 191 for the device that line 190 found without a color, then
\* line 190 for the devices up to the next one without a color.
Assign(w) ==
    /\ pc[w] = "assign"
    /\ LET colors == assign_color(device_colors, Head(devices[w]))
           rest == skip_known(Tail(devices[w]), colors)
       IN /\ device_colors' = colors
          /\ devices' = [devices EXCEPT ![w] = rest]
          /\ pc' = [pc EXCEPT ![w] = IF rest = <<>> THEN "build" ELSE "assign"]
    /\ UNCHANGED <<source, main, load_resp, data_df, last_time, new_df,
                   concat_df, adapter, n_intervals, out>>

\* lines 193-230: markers, polylines and the return.
Build(w) ==
    /\ pc[w] = "build"
    /\ LET m == build_markers(data_df, device_colors)
           lines == build_lines(data_df, m.colors)
       IN /\ device_colors' = m.colors
          /\ out' = Return(w, adapter[w], m.markers \o lines)
    /\ pc' = [pc EXCEPT ![w] = "idle"]
    /\ last_time' = [last_time EXCEPT ![w] = START_TIME]
    /\ adapter' = [adapter EXCEPT ![w] = "none"]
    /\ UNCHANGED <<source, main, load_resp, data_df, new_df, concat_df,
                   devices, n_intervals>>

Step(w) ==
    \/ Query(w)
    \/ Concat(w)
    \/ Store(w)
    \/ ColorsBegin(w)
    \/ Assign(w)
    \/ Build(w)

Next ==
    \/ SourceWrite
    \/ Load
    \/ \E w \in Workers : Trigger(w)
    \/ \E w \in Workers : Step(w)

NextSerial ==
    \/ SourceWrite
    \/ Load
    \/ \E w \in Workers : SerialTrigger(w)
    \/ \E w \in Workers : Step(w)

\* the module-level code alone: the store fills and the history is loaded
NextStartup ==
    \/ SourceWrite
    \/ Load

\* the program as the server runs it
Spec == Init /\ [][Next]_vars

\* the program up to the end of its startup
SpecStartup == Init /\ [][NextStartup]_vars

\* the program with one cycle at a time
SpecSerial == Init /\ [][NextSerial]_vars

TypeOK ==
    /\ source \subseteq Readings
    /\ main \in {"load", "serving", "crashed"}
    /\ pc \in [Workers -> {"idle", "query", "concat", "store", "colors",
                           "assign", "build"}]
    /\ DOMAIN device_colors \subseteq DeviceValues

\* ----------------------------------------------------------------- helpers
\* the step is worker w leaving line 180: the adapter has answered
Answered(w) == pc[w] = "query" /\ pc'[w] # "query"

\* C1: over any run the Dataset never shrinks and its watermark (the
\* newest time it holds) never decreases, whatever the adapter answers.
C1_SyncMonotonic ==
    [][/\ Len(data_df'.rows) >= Len(data_df.rows)
       /\ data_df.rows # <<>> => max_time(data_df') >= max_time(data_df)]_vars

\* C2: when the adapter fails during the incremental fetch, update_map
\* does not raise and the Dataset is left as it was.
C2_AdapterFailureContained ==
    [][\A w \in Workers :
          (Answered(w) /\ out'.worker = w /\ out'.adapter = "error")
             => out'.kind = "returned" /\ data_df' = data_df]_vars

\* C3: when the incremental response has no records or lacks the
\* timestamp column, update_map raises nothing and appends nothing.
C3_EmptyOrMalformedIsNoOp ==
    [][\A w \in Workers :
          Answered(w) =>
             LET k == IF pc'[w] = "idle" THEN out'.adapter ELSE adapter'[w]
             IN k \in {"empty", "malformed"}
                   => pc'[w] = "colors" /\ data_df' = data_df]_vars

\* C4: the initial load yields an empty Dataset, without failing, when the
\* full-history response is empty or has no timestamp column, and
\* otherwise the response's records with _time renamed to time.
C4_InitialLoad ==
    (main # "load" /\ n_intervals = 0) =>
        /\ load_resp.kind \in {"empty", "malformed"}
              => main = "serving" /\ data_df = EmptyFrame
        /\ load_resp.kind \in {"frame", "list"}
              => /\ main = "serving"
                 /\ data_df.columns = {"time", "device", "latitude", "longitude"}
                 /\ Len(data_df.rows) = Len(load_resp.df.rows)
                 /\ \A i \in 1..Len(data_df.rows) :
                       data_df.rows[i] =
                          [time |-> load_resp.df.rows[i]._time,
                           device |-> load_resp.df.rows[i].device,
                           latitude |-> load_resp.df.rows[i].latitude,
                           longitude |-> load_resp.df.rows[i].longitude]

\* C4 witness: the load was answered with rows that have no _time column
\* and the server is up with an empty Dataset.
C4_Witness ==
    /\ main = "serving"
    /\ n_intervals = 0
    /\ load_resp.kind = "malformed"
    /\ Len(load_resp.df.rows) = 2
    /\ data_df = EmptyFrame

\* C5: an adapter failure during the initial load does not end the
\* startup: the server comes up with an empty Dataset.
C5_LoadFailureContained ==
    (main # "load" /\ load_resp.kind = "error")
        => main = "serving" /\ data_df = EmptyFrame

\* C6: no reading of the source, identified by device and time, is in the
\* Dataset more than once.
C6_NoDuplicates ==
    \A i, j \in 1..Len(data_df.rows) :
        (i # j) => \/ data_df.rows[i].device # data_df.rows[j].device
                   \/ data_df.rows[i].time # data_df.rows[j].time

\* C7: at most one invocation of update_map is between its start and its
\* return at any time.
C7_CyclesNeverOverlap ==
    Cardinality({w \in Workers : pc[w] # "idle"}) <= 1

\* C8: a device that has a color keeps that color in every later state.
C8_ColorNeverChanges ==
    [][\A d \in DOMAIN device_colors :
          d \in DOMAIN device_colors' /\ device_colors'[d] = device_colors[d]]_vars

\* C9: after a refresh cycle the N-th distinct device identifier of the
\* Dataset, counted from 0 in order of first appearance, has the color
\* color_palette[N mod P].
C9_NthDeviceNthColor ==
    (out.kind = "returned" /\ out.adapter # "none" /\ pc[out.worker] = "idle") =>
        LET ds == unique_devices(data_df)
        IN \A k \in 1..Len(ds) :
              /\ ds[k] \in DOMAIN device_colors
              /\ device_colors[ds[k]] =
                    color_palette[((k - 1) % Len(color_palette)) + 1]

\* C10: every point of every polyline an update returns has a latitude
\* and a longitude.
C10_TrailPointsAreValid ==
    \A i \in 1..Len(out.children) :
        out.children[i].type = "Polyline" =>
            \A k \in 1..Len(out.children[i].positions) :
                /\ notna(out.children[i].positions[k][1])
                /\ notna(out.children[i].positions[k][2])

\* a row with both coordinates
HasPosition(row) == notna(row.latitude) /\ notna(row.longitude)

\* the rows of the Dataset that have both coordinates, in arrival order
PositionedRows == SelectSeq(data_df.rows, LAMBDA r : HasPosition(r))

\* the rows of device d that have both coordinates
PositionedRowsOf(d) == SelectSeq(PositionedRows, LAMBDA r : r.device = d)

\* the markers and the polylines of the last return
MarkersOut == SelectSeq(out.children, LAMBDA c : c.type = "CircleMarker")
TrailsOut == SelectSeq(out.children, LAMBDA c : c.type = "Polyline")

\* a cycle has run to its return and no other has begun: data_df and
\* device_colors are the ones the returned children were built from
CycleBuilt ==
    /\ out.kind = "returned"
    /\ out.adapter # "none"
    /\ \A w \in Workers : pc[w] = "idle"

NamedDevices == DeviceValues \ {NaN}

\* C11: a device has a trail exactly when it has at least two records
\* with both coordinates; with exactly one it has a marker and no trail,
\* with none it has neither.
C11_TrailIffTwoValidPoints ==
    CycleBuilt =>
        \A d \in NamedDevices :
            LET n == Len(PositionedRowsOf(d))
                trail == \E i \in 1..Len(TrailsOut) : TrailsOut[i].device = d
                marker == \E i \in 1..Len(MarkersOut) :
                              MarkersOut[i].popup.device = d
            IN /\ trail <=> n >= 2
               /\ n = 1 => marker
               /\ n = 0 => ~marker

ShownTimes(pos) == {pos[c][1] : c \in {c \in {1, 2} : notna(pos[c])}}

\* C13: every trail lists its points in non-decreasing order of time and
\* no device has two trails.
C13_TrailsOrderedByTime ==
    CycleBuilt =>
        /\ \A i \in 1..Len(TrailsOut) :
              LET ps == TrailsOut[i].positions
              IN \A k, l \in 1..Len(ps) :
                    k < l => \A tk \in ShownTimes(ps[k]) :
                                \A tl \in ShownTimes(ps[l]) : tk <= tl
        /\ \A i, j \in 1..Len(TrailsOut) :
              i # j => TrailsOut[i].device # TrailsOut[j].device

\* C13 witness: a trail was returned for a device whose rows are in
\* data_df out of time order.
C13_Witness ==
    /\ CycleBuilt
    /\ \E i \in 1..Len(TrailsOut) :
          LET g == group_rows(data_df, TrailsOut[i].device)
          IN \E k \in 1..(Len(g) - 1) :
                /\ g[k].time > g[k + 1].time
                /\ HasPosition(g[k]) /\ HasPosition(g[k + 1])

C15_FetchFromWatermark ==
    [][\A w \in Workers :
          /\ (pc[w] = "idle" /\ pc'[w] = "query") =>
                /\ \E i \in 1..Len(data_df.rows) :
                      data_df.rows[i].time = last_time'[w]
                /\ \A i \in 1..Len(data_df.rows) :
                      data_df.rows[i].time <= last_time'[w]
          /\ (Answered(w) /\ pc'[w] = "concat") =>
                {[_time |-> new_df'[w].rows[i].time,
                  device |-> new_df'[w].rows[i].device,
                  latitude |-> new_df'[w].rows[i].latitude,
                  longitude |-> new_df'[w].rows[i].longitude] :
                     i \in 1..Len(new_df'[w].rows)}
                = {r \in source : r._time >= last_time[w]}]_vars

\* C15 witness: a cycle has fetched from a Dataset whose last row is not
\* its newest, and got a reading at the watermark again.
C15_Witness ==
    \E w \in Workers :
        /\ pc[w] = "concat"
        /\ data_df.rows[Len(data_df.rows)].time < last_time[w]
        /\ \E i \in 1..Len(new_df[w].rows) :
              new_df[w].rows[i].time = last_time[w]

C17_SyncIsPureAppend ==
    [][\A w \in Workers :
          (pc[w] = "store" /\ pc'[w] = "colors")
             => data_df'.rows = data_df.rows \o new_df[w].rows]_vars

C19_EmptyIsAbsorbing ==
    [][(main = "serving" /\ empty(data_df))
         => /\ empty(data_df')
            /\ \A w \in Workers : pc'[w] = "idle"
            /\ out'.children = <<>>
            /\ out'.kind # "raised"]_vars

\* C19 witness: every tick was served on an empty Dataset although the
\* store holds readings.
C19_Witness ==
    /\ main = "serving"
    /\ empty(data_df)
    /\ Cardinality(source) >= 1
    /\ n_intervals >= 2
    /\ device_colors = NoDict

\* C20: an assignment of line 184 overwrites no record: it leaves the
\* Dataset with the rows it had plus the rows this invocation fetched.
C20_NoLostUpdate ==
    [][\A w \in Workers :
          (pc[w] = "store" /\ pc'[w] = "colors")
             => /\ Len(data_df'.rows) = Len(data_df.rows) + Len(new_df[w].rows)
                /\ \A i \in 1..Len(data_df.rows) :
                      \E j \in 1..Len(data_df'.rows) :
                         data_df'.rows[j] = data_df.rows[i]]_vars

====
